---- MODULE Spec2Model ----
(***************************************************************************)
(* A model of the Energomonitor API client: one Session object (the class  *)
(* Energomonitor), the helpers of utils.js and the axios transport the     *)
(* Session talks to.  A method call is one atomic step (JavaScript runs it *)
(* to completion); the transport settles every request in a later step.    *)
(***************************************************************************)
EXTENDS Integers, Sequences, FiniteSets, Bags, TLC

(***************************************************************************)
(* JavaScript values, tagged by their type.                                *)
(***************************************************************************)
Undefined == [type |-> "undefined"]
Null == [type |-> "null"]
Str(s) == [type |-> "string", v |-> s]
Num(n) == [type |-> "number", v |-> n]
Bool(b) == [type |-> "boolean", v |-> b]
List(s) == [type |-> "array", v |-> s]
Obj(f) == [type |-> "object", v |-> f]
\* A Date whose time value is sec * 1000 + ms milliseconds since the epoch,
\* 0 <= ms < 1000 (the time value itself exceeds the checker's integers).
Date(sec, ms) == [type |-> "date", sec |-> sec, ms |-> ms]
Error(name, message) == [type |-> "error", name |-> name, message |-> message]
\* A function value, known by its source text.
Function(text) == [type |-> "function", v |-> text]
\* new Date(NaN), the Invalid Date, and the number NaN.
InvalidDate == [type |-> "date", time |-> "NaN"]
NaN == [type |-> "number", nan |-> TRUE]
\* An evaluation that throws instead of giving a value.
Thrown(error) == [kind |-> "thrown", value |-> error]
IsThrown(result) == "kind" \in DOMAIN result /\ result.kind = "thrown"

\* The empty object literal {}.
EmptyObject == Obj(<<>>)

\* String conversion of a value inside a template literal `${value}`.
TemplateString(value) ==
    CASE value.type = "string" -> value.v
      [] value.type = "undefined" -> "undefined"
      [] value.type = "null" -> "null"
      [] value.type = "number" -> IF value = NaN THEN "NaN" ELSE ToString(value.v)

\* Property read object.key: a TypeError on undefined and null, undefined
\* for a key the value does not have.
Nullish(value) == value.type \in {"undefined", "null"}
GetProp(value, key) ==
    IF value.type = "object" /\ key \in DOMAIN value.v
    THEN value.v[key]
    ELSE Undefined

\* obj[key] = value on an object literal.
SetProp(object, key, value) ==
    Obj([k \in (DOMAIN object.v) \cup {key} |->
            IF k = key THEN value ELSE object.v[k]])

(***************************************************************************)
(* utils.js                                                                *)
(***************************************************************************)
NotAuthorizedMessage ==
    "Cannot call this method without setting the authorization token "
    \o "(in the constructor or using the authorize method)."

\* Faulty variant: the token without the "Bearer " scheme.
buildAuthorizedRequestHeaders_NoScheme(token) ==
    Obj([k \in {"Content-Type", "Authorization"} |->
            IF k = "Content-Type"
            THEN Str("application/json")
            ELSE Str(TemplateString(token))])

buildAuthorizedRequestHeaders(token) ==
    Obj([k \in {"Content-Type", "Authorization"} |->
            IF k = "Content-Type"
            THEN Str("application/json")
            ELSE Str("Bearer " \o TemplateString(token))])

\* Math.round(date.getTime() / 1000): the nearest integer, a half rounded up.
\* getTime() / 1000 is sec + ms / 1000, so the rounding acts on ms / 1000.
\* A value that is not a Date has no getTime, and the call throws; the time
\* value of the Invalid Date is NaN, and Math.round(NaN) is NaN.
dateToTimestamp(date) ==
    IF date.type # "date"
    THEN Thrown(Error("TypeError", "date.getTime is not a function"))
    ELSE IF date = InvalidDate THEN NaN
    ELSE Num(date.sec + (date.ms + 500) \div 1000)

\* What a call hands back: a promise already rejected, or the promise of a
\* request given to the transport.
Rejected(value) == [kind |-> "rejected", value |-> value]

\* Faulty variant: no check of the token.
authorizedApiRequest_NoGate(token, f) == f

\* Faulty variant: the check inverted (token !== undefined).
authorizedApiRequest_Inverted(token, f) ==
    IF token # Undefined
    THEN Rejected(Str(NotAuthorizedMessage))
    ELSE f

\* Faulty variant: without a token the helper throws the message instead of
\* returning a rejected promise.
authorizedApiRequest_Throws(token, f) ==
    IF token = Undefined
    THEN [kind |-> "thrown", value |-> Str(NotAuthorizedMessage)]
    ELSE f

\* Faulty variant: the gate tests !token, and so turns away null, the empty
\* string and zero as well.
authorizedApiRequest_Falsy(token, f) ==
    IF \/ Nullish(token)
       \/ (token.type = "string" /\ token.v = "")
       \/ (token.type = "number" /\ token.v = 0)
    THEN Rejected(Str(NotAuthorizedMessage))
    ELSE f

authorizedApiRequest(token, f) ==
    IF token = Undefined
    THEN Rejected(Str(NotAuthorizedMessage))
    ELSE f

(***************************************************************************)
(* Date.prototype.toISOString: YYYY-MM-DDTHH:mm:ss.sssZ in UTC, for the    *)
(* years 0000 to 9999.                                                     *)
(***************************************************************************)
Pad(n, width) ==
    LET digits == ToString(n)
        zeros == [i \in 1..3 |-> "0"]
        RECURSIVE Fill(_, _)
        Fill(text, have) ==
            IF have >= width THEN text ELSE Fill(zeros[1] \o text, have + 1)
    IN Fill(digits,
            IF n < 10 THEN 1 ELSE IF n < 100 THEN 2 ELSE IF n < 1000 THEN 3 ELSE 4)

toISOString(date) ==
    IF date.type # "date"
    THEN Thrown(Error("TypeError", "createdAtFrom.toISOString is not a function"))
    ELSE IF date = InvalidDate THEN Thrown(Error("RangeError", "Invalid time value"))
    ELSE
    LET days == date.sec \div 86400
        secs == date.sec % 86400
        z == days + 719468
        era == z \div 146097
        doe == z - era * 146097
        yoe == (doe - doe \div 1460 + doe \div 36524 - doe \div 146096) \div 365
        doy == doe - (365 * yoe + yoe \div 4 - yoe \div 100)
        mp == (5 * doy + 2) \div 153
        day == doy - (153 * mp + 2) \div 5 + 1
        month == IF mp < 10 THEN mp + 3 ELSE mp - 9
        year == yoe + era * 400 + (IF month <= 2 THEN 1 ELSE 0)
    IN Str(Pad(year, 4) \o "-" \o Pad(month, 2) \o "-" \o Pad(day, 2) \o "T"
           \o Pad(secs \div 3600, 2) \o ":" \o Pad((secs % 3600) \div 60, 2)
           \o ":" \o Pad(secs % 60, 2) \o "." \o Pad(date.ms, 3) \o "Z")

(***************************************************************************)
(* Energomonitor.js: the endpoint paths.                                   *)
(***************************************************************************)
\* Faulty variant: the paths with two identifiers take them in the other
\* order.
ENDPOINT_URLS_Swapped(name, ids) ==
    CASE name = "auth" -> "/authorizations"
      [] name = "user" -> "/users/" \o TemplateString(ids[1])
      [] name = "feeds" -> "/users/" \o TemplateString(ids[1]) \o "/feeds"
      [] name = "feed" -> "/feeds/" \o TemplateString(ids[1])
      [] name = "streams" -> "/feeds/" \o TemplateString(ids[1]) \o "/streams"
      [] name = "stream" ->
            "/feeds/" \o TemplateString(ids[2]) \o "/streams/"
            \o TemplateString(ids[1])
      [] name = "streamData" ->
            "/feeds/" \o TemplateString(ids[2]) \o "/streams/"
            \o TemplateString(ids[1]) \o "/data"
      [] name = "relatedStreams" ->
            "/feeds/" \o TemplateString(ids[1]) \o "/related_streams"
      [] name = "notifications" ->
            "/users/" \o TemplateString(ids[1]) \o "/notifications"
      [] name = "notification" ->
            "/users/" \o TemplateString(ids[2]) \o "/notifications/"
            \o TemplateString(ids[1])
      [] name = "notificationCount" ->
            "/users/" \o TemplateString(ids[1]) \o "/notification_count"

ENDPOINT_URLS(name, ids) ==
    CASE name = "auth" -> "/authorizations"
      [] name = "user" -> "/users/" \o TemplateString(ids[1])
      [] name = "feeds" -> "/users/" \o TemplateString(ids[1]) \o "/feeds"
      [] name = "feed" -> "/feeds/" \o TemplateString(ids[1])
      [] name = "streams" -> "/feeds/" \o TemplateString(ids[1]) \o "/streams"
      [] name = "stream" ->
            "/feeds/" \o TemplateString(ids[1]) \o "/streams/"
            \o TemplateString(ids[2])
      [] name = "streamData" ->
            "/feeds/" \o TemplateString(ids[1]) \o "/streams/"
            \o TemplateString(ids[2]) \o "/data"
      [] name = "relatedStreams" ->
            "/feeds/" \o TemplateString(ids[1]) \o "/related_streams"
      [] name = "notifications" ->
            "/users/" \o TemplateString(ids[1]) \o "/notifications"
      [] name = "notification" ->
            "/users/" \o TemplateString(ids[1]) \o "/notifications/"
            \o TemplateString(ids[2])
      [] name = "notificationCount" ->
            "/users/" \o TemplateString(ids[1]) \o "/notification_count"

(***************************************************************************)
(* Bounds and the values the environment supplies.                         *)
(***************************************************************************)
\* Requests the caller leaves in flight at the same time.
MaxInFlight == 2

\* Tokens given to the constructor; Undefined is the omitted argument.
ConstructorTokens == {Undefined, Str("t1")}

\* Bodies of a successful POST /authorizations: authorization objects with a
\* token, an object without one, and no body at all.
AuthorizationObjects == {Obj([token |-> Str(t)]) : t \in {"t1", "t2"}}
AuthorizationBodies == AuthorizationObjects \cup {EmptyObject, Null}

\* Bodies of the other successful responses.
ResourceBodies == {Obj([id |-> Str("x")]), Null}

\* Failures of the transport (a non-2xx status, a network failure).
TransportErrors ==
    {Error("Error", "Request failed with status code 401"),
     Error("Error", "Network Error")}

\* Argument values of the calls.  The narrow sets leave the optional
\* arguments out; the wide sets range over them.
Optional(values, wide) == IF wide THEN values \cup {Undefined} ELSE {Undefined}
Ids(prefix) == {Str(prefix \o "1")}
Notes == {Str("x")}
Resources == {List(<<Obj([type |-> Str("feed"), name |-> Str("n")])>>)}
Minutes == {Num(15)}
Types == {Str("raw"), List(<<Str("raw"), Str("processed")>>)}
Channels == {Num(1), List(<<Num(1), Num(2), Num(3)>>)}
Dates == {Date(1444626600, 0), Date(1492878600, 500)}
Limits == {Num(10)}
Patches == {Obj([read |-> Bool(TRUE)]), EmptyObject}

(***************************************************************************)
(* State.                                                                  *)
(***************************************************************************)
VARIABLES
    token,                      \* this._token
    authorizedRequestHeaders,   \* this._authorizedRequestHeaders
    axios,                      \* this._axios
    defaults,                   \* defaults.baseURL of every axios instance
    inflight,                   \* requests the transport has not settled yet
    last,                       \* the last construction, call or settlement
    other,                      \* a second Session, once one is constructed
    helper,                     \* a direct call of authorizedApiRequest
    history                     \* what the formulas recall of the past

vars ==
    <<token, authorizedRequestHeaders, axios, defaults, inflight, last, other,
      helper, history>>

\* axios instances: the one axios.create() makes for the Session, the one it
\* makes for a second Session, and the one a caller may hand to the
\* constructor, which already has a base URL.
AxiosCreate == [type |-> "axios", id |-> "created"]
AxiosCreateAgain == [type |-> "axios", id |-> "created again"]
CustomAxios == [type |-> "axios", id |-> "custom"]
AxiosInstances == {AxiosCreate, AxiosCreateAgain, CustomAxios}
FreshDefaults ==
    [i \in AxiosInstances |->
        IF i = CustomAxios THEN Str("https://prior.example") ELSE Undefined]

DefaultApiURL == Str("https://api.energomonitor.com/v1")

Pending == [state |-> "pending", value |-> Undefined]
Settled(state, value) == [state |-> state, value |-> value]

\* Faulty variant: the constructor ignores its token.
Constructor_DropsToken(tokenArg, axiosInstance, apiURLArg) ==
    LET apiURL == IF apiURLArg = Undefined THEN DefaultApiURL ELSE apiURLArg
        instance == IF axiosInstance # Undefined THEN axiosInstance ELSE AxiosCreate
    IN /\ token = Undefined
       /\ authorizedRequestHeaders = buildAuthorizedRequestHeaders(Undefined)
       /\ axios = instance
       /\ defaults = [FreshDefaults EXCEPT ![instance] = apiURL]
       /\ inflight = EmptyBag
       /\ last = [event |-> "none", op |-> "constructor", args |-> <<>>,
                  tokenAtCall |-> Undefined, request |-> Undefined,
                  response |-> Undefined, promise |-> Pending]
       /\ other = Undefined
       /\ history = [constructorToken |-> tokenArg, authorizeCalled |-> FALSE,
                     axiosInstance |-> axiosInstance, apiURL |-> apiURLArg,
                     other |-> Undefined, succeeded |-> {},
                     lastSuccess |-> Undefined]

\* Faulty variant: an axios instance handed in keeps the base URL it had.
Constructor_KeepsBaseURL(tokenArg, axiosInstance, apiURLArg) ==
    LET apiURL == IF apiURLArg = Undefined THEN DefaultApiURL ELSE apiURLArg
        instance == IF axiosInstance # Undefined THEN axiosInstance ELSE AxiosCreate
    IN /\ token = tokenArg
       /\ authorizedRequestHeaders = buildAuthorizedRequestHeaders(tokenArg)
       /\ axios = instance
       /\ defaults = [FreshDefaults EXCEPT ![AxiosCreate] =
                        IF instance = AxiosCreate THEN apiURL ELSE @]
       /\ inflight = EmptyBag
       /\ last = [event |-> "none", op |-> "constructor", args |-> <<>>,
                  tokenAtCall |-> Undefined, request |-> Undefined,
                  response |-> Undefined, promise |-> Pending]
       /\ other = Undefined
       /\ history = [constructorToken |-> tokenArg, authorizeCalled |-> FALSE,
                     axiosInstance |-> axiosInstance, apiURL |-> apiURLArg,
                     other |-> Undefined, succeeded |-> {},
                     lastSuccess |-> Undefined]

\* The constructor; arguments left out are Undefined.
Constructor(tokenArg, axiosInstance, apiURLArg) ==
    LET apiURL == IF apiURLArg = Undefined THEN DefaultApiURL ELSE apiURLArg
        instance == IF axiosInstance # Undefined THEN axiosInstance ELSE AxiosCreate
    IN /\ token = tokenArg
       /\ authorizedRequestHeaders = buildAuthorizedRequestHeaders(tokenArg)
       /\ axios = instance
       /\ defaults = [FreshDefaults EXCEPT ![instance] = apiURL]
       /\ inflight = EmptyBag
       /\ last = [event |-> "none", op |-> "constructor", args |-> <<>>,
                  tokenAtCall |-> Undefined, request |-> Undefined,
                  response |-> Undefined, promise |-> Pending]
       /\ other = Undefined
       /\ history = [constructorToken |-> tokenArg, authorizeCalled |-> FALSE,
                     axiosInstance |-> axiosInstance, apiURL |-> apiURLArg,
                     other |-> Undefined, succeeded |-> {},
                     lastSuccess |-> Undefined]

\* Faulty variant: the base URL is written to the defaults every axios
\* instance shares instead of to the instance of the new Session.
ConstructOther_Global(tokenArg, axiosInstance, apiURLArg) ==
    LET apiURL == IF apiURLArg = Undefined THEN DefaultApiURL ELSE apiURLArg
        instance == IF axiosInstance # Undefined THEN axiosInstance
                    ELSE AxiosCreateAgain
    IN /\ other = Undefined
       /\ other' = [token |-> tokenArg,
                    authorizedRequestHeaders |->
                        buildAuthorizedRequestHeaders(tokenArg),
                    axios |-> instance]
       /\ defaults' = [i \in AxiosInstances |-> apiURL]
       /\ history' = [history EXCEPT
                        !.other = [axiosInstance |-> axiosInstance,
                                   apiURL |-> apiURLArg]]
       /\ last' = [event |-> "construct", op |-> "constructor",
                   args |-> <<tokenArg, axiosInstance, apiURLArg>>,
                   tokenAtCall |-> Undefined, request |-> Undefined,
                   response |-> Undefined, promise |-> Pending]
       /\ UNCHANGED <<token, authorizedRequestHeaders, axios, inflight, helper>>

\* The constructor run once more, for a second Session of the same program:
\* the new object gets its own fields, and the base URL is written to the
\* defaults of the axios instance the new Session uses.
ConstructOther(tokenArg, axiosInstance, apiURLArg) ==
    LET apiURL == IF apiURLArg = Undefined THEN DefaultApiURL ELSE apiURLArg
        instance == IF axiosInstance # Undefined THEN axiosInstance
                    ELSE AxiosCreateAgain
    IN /\ other = Undefined
       /\ other' = [token |-> tokenArg,
                    authorizedRequestHeaders |->
                        buildAuthorizedRequestHeaders(tokenArg),
                    axios |-> instance]
       /\ defaults' = [defaults EXCEPT ![instance] = apiURL]
       /\ history' = [history EXCEPT
                        !.other = [axiosInstance |-> axiosInstance,
                                   apiURL |-> apiURLArg]]
       /\ last' = [event |-> "construct", op |-> "constructor",
                   args |-> <<tokenArg, axiosInstance, apiURLArg>>,
                   tokenAtCall |-> Undefined, request |-> Undefined,
                   response |-> Undefined, promise |-> Pending]
       /\ UNCHANGED <<token, authorizedRequestHeaders, axios, inflight, helper>>

(***************************************************************************)
(* The transport: this._axios.get / post / patch hand a request to axios   *)
(* and return its promise; `next` names the callback chained with .then.   *)
(***************************************************************************)
Config(headers, params, auth, paramsSerializer) ==
    [headers |-> headers, params |-> params, auth |-> auth,
     paramsSerializer |-> paramsSerializer]

AxiosRequest(method, url, data, config, next) ==
    [kind |-> "request",
     request |-> [method |-> method, url |-> url, data |-> data, config |-> config],
     next |-> next]

(***************************************************************************)
(* The query string of getStreams: axios hands config.params to            *)
(* config.paramsSerializer, which is qs.stringify with indices off.  The   *)
(* string is kept as the sequence of its key=value pairs; QueryString      *)
(* writes it out.                                                          *)
(***************************************************************************)
\* The keys of params in the order getStreams assigns them, which is the
\* order Object.keys gives them to qs.
ParamOrder == <<"type", "channel", "data_time_from", "data_time_to">>

RECURSIVE Flatten(_)
Flatten(seqs) == IF seqs = <<>> THEN <<>> ELSE Head(seqs) \o Flatten(Tail(seqs))

\* qs.stringify(params, { indices: indices }): an array gives one pair per
\* element, under the bare key when indices is off and under key[i] when on.
qsStringify(params, indices) ==
    LET keys == SelectSeq(ParamOrder, LAMBDA k : k \in DOMAIN params.v)
        PairsOf(k) ==
            LET value == params.v[k]
            IN IF value.type = "array"
               THEN [i \in 1..Len(value.v) |->
                        <<IF indices THEN k \o "[" \o ToString(i - 1) \o "]" ELSE k,
                          TemplateString(value.v[i])>>]
               ELSE <<<<k, TemplateString(value)>>>>
    IN Flatten([i \in 1..Len(keys) |-> PairsOf(keys[i])])

\* Faulty variant: qs.stringify(params), with the indices qs writes by
\* default.
paramsSerializer_Indices(params) == qsStringify(params, TRUE)

\* paramsSerializer: function(params) { return qs.stringify(params, { indices: false }); }
paramsSerializer(params) == qsStringify(params, FALSE)

\* The pairs joined into the string: key=value&key=value.
RECURSIVE QueryString(_)
QueryString(pairs) ==
    IF pairs = <<>> THEN ""
    ELSE Head(pairs)[1] \o "=" \o Head(pairs)[2]
         \o (IF Len(pairs) > 1 THEN "&" ELSE "") \o QueryString(Tail(pairs))

\* A method call: `result` is what the method returns.  axios serializes the
\* params of a request whose config has a paramsSerializer with it.
Call(op, args, result) ==
    LET sends == result.kind = "request"
        serialized ==
            IF sends /\ result.request.config.paramsSerializer # Undefined
            THEN paramsSerializer(result.request.config.params)
            ELSE Undefined
    IN /\ sends => BagCardinality(inflight) < MaxInFlight
       /\ inflight' =
            IF sends
            THEN inflight (+) SetToBag({[op |-> op, request |-> result.request,
                                         next |-> result.next,
                                         tokenAtCall |-> token,
                                         baseURL |-> defaults[axios],
                                         serialized |-> serialized]})
            ELSE inflight
       /\ last' = [event |-> "call", op |-> op, args |-> args,
                   tokenAtCall |-> token,
                   request |-> IF sends THEN result.request ELSE Undefined,
                   response |-> Undefined,
                   promise |-> IF sends THEN Pending
                               ELSE IF IsThrown(result)
                               THEN [state |-> "thrown", value |-> result.value]
                               ELSE Settled("rejected", result.value)]
       /\ history' = [history EXCEPT
                        !.authorizeCalled = @ \/ op = "authorize"]
       /\ UNCHANGED <<token, authorizedRequestHeaders, axios, defaults, other, helper>>

(***************************************************************************)
(* The methods of Energomonitor.  An argument left out is Undefined.       *)
(***************************************************************************)
\* Faulty variant: the key is assigned whether or not the value is given.
SetIfDefined_Always(object, key, value) == SetProp(object, key, value)

\* The statements of a method run in order: params is built first, and a
\* conversion that throws while it is built ends the call there; only then
\* comes the return statement with the gate.
Marshaled(params, result) ==
    IF \E k \in DOMAIN params.v : IsThrown(params.v[k])
    THEN params.v[CHOOSE k \in DOMAIN params.v : IsThrown(params.v[k])]
    ELSE result

\* if (value !== undefined) { object[key] = value; }
SetIfDefined(object, key, value) ==
    IF value # Undefined THEN SetProp(object, key, value) ELSE object

BearerConfig == Config(authorizedRequestHeaders, Undefined, Undefined, Undefined)

\* Faulty variant: authorize behind the gate like the other methods.
authorize_Gated(username, password, note, resources, validMinutes) ==
    Call("authorize", <<username, password, note, resources, validMinutes>>,
         authorizedApiRequest(token,
            AxiosRequest("POST", ENDPOINT_URLS("auth", <<>>), EmptyObject,
                         Config(Undefined, Undefined,
                                Obj([username |-> username, password |-> password]),
                                Undefined),
                         "authorize")))

authorize(username, password, note, resources, validMinutes) ==
    LET url == ENDPOINT_URLS("auth", <<>>)
        data == SetIfDefined(
                    SetIfDefined(
                        SetIfDefined(EmptyObject, "note", note),
                        "resources", resources),
                    "valid_minutes", validMinutes)
        config == Config(Undefined, Undefined,
                         Obj([username |-> username, password |-> password]),
                         Undefined)
    IN Call("authorize", <<username, password, note, resources, validMinutes>>,
            AxiosRequest("POST", url, data, config, "authorize"))

getUser(userId) ==
    LET url == ENDPOINT_URLS("user", <<userId>>)
    IN Call("getUser", <<userId>>,
            authorizedApiRequest(token,
                AxiosRequest("GET", url, Undefined, BearerConfig, "data")))

getFeeds(userId) ==
    LET url == ENDPOINT_URLS("feeds", <<userId>>)
    IN Call("getFeeds", <<userId>>,
            authorizedApiRequest(token,
                AxiosRequest("GET", url, Undefined, BearerConfig, "data")))

getFeed(feedId) ==
    LET url == ENDPOINT_URLS("feed", <<feedId>>)
    IN Call("getFeed", <<feedId>>,
            authorizedApiRequest(token,
                AxiosRequest("GET", url, Undefined, BearerConfig, "data")))

getStreams(feedId, types, channels, dataTimeFrom, dataTimeTo) ==
    LET url == ENDPOINT_URLS("streams", <<feedId>>)
        p1 == SetIfDefined(EmptyObject, "type", types)
        p2 == SetIfDefined(p1, "channel", channels)
        p3 == IF dataTimeFrom # Undefined
              THEN SetProp(p2, "data_time_from", dateToTimestamp(dataTimeFrom))
              ELSE p2
        params == IF dataTimeTo # Undefined
                  THEN SetProp(p3, "data_time_to", dateToTimestamp(dataTimeTo))
                  ELSE p3
        config == Config(authorizedRequestHeaders, params, Undefined,
                         Function("qs.stringify(params, { indices: false })"))
    IN Call("getStreams", <<feedId, types, channels, dataTimeFrom, dataTimeTo>>,
            Marshaled(params,
                authorizedApiRequest(token,
                    AxiosRequest("GET", url, Undefined, config, "data"))))

getStream(feedId, streamId) ==
    LET url == ENDPOINT_URLS("stream", <<feedId, streamId>>)
    IN Call("getStream", <<feedId, streamId>>,
            authorizedApiRequest(token,
                AxiosRequest("GET", url, Undefined, BearerConfig, "data")))

getStreamData(feedId, streamId, timeFrom, timeTo, limit) ==
    LET url == ENDPOINT_URLS("streamData", <<feedId, streamId>>)
        p1 == SetIfDefined(EmptyObject, "limit", limit)
        p2 == IF timeFrom # Undefined
              THEN SetProp(p1, "time_from", dateToTimestamp(timeFrom))
              ELSE p1
        params == IF timeTo # Undefined
                  THEN SetProp(p2, "time_to", dateToTimestamp(timeTo))
                  ELSE p2
        config == Config(authorizedRequestHeaders, params, Undefined, Undefined)
    IN Call("getStreamData", <<feedId, streamId, timeFrom, timeTo, limit>>,
            Marshaled(params,
                authorizedApiRequest(token,
                    AxiosRequest("GET", url, Undefined, config, "data"))))

getRelatedStreams(feedId) ==
    LET url == ENDPOINT_URLS("relatedStreams", <<feedId>>)
    IN Call("getRelatedStreams", <<feedId>>,
            authorizedApiRequest(token,
                AxiosRequest("GET", url, Undefined, BearerConfig, "data")))

\* Faulty variant: createdAtFrom goes out as Unix seconds, like the dates of
\* the other methods.
getNotifications_Timestamp(userId, createdAtFrom) ==
    LET url == ENDPOINT_URLS("notifications", <<userId>>)
        params == IF createdAtFrom # Undefined
                  THEN SetProp(EmptyObject, "created_at_from",
                               dateToTimestamp(createdAtFrom))
                  ELSE EmptyObject
        config == Config(authorizedRequestHeaders, params, Undefined, Undefined)
    IN Call("getNotifications", <<userId, createdAtFrom>>,
            Marshaled(params,
                authorizedApiRequest(token,
                    AxiosRequest("GET", url, Undefined, config, "data"))))

getNotifications(userId, createdAtFrom) ==
    LET url == ENDPOINT_URLS("notifications", <<userId>>)
        params == IF createdAtFrom # Undefined
                  THEN SetProp(EmptyObject, "created_at_from",
                               toISOString(createdAtFrom))
                  ELSE EmptyObject
        config == Config(authorizedRequestHeaders, params, Undefined, Undefined)
    IN Call("getNotifications", <<userId, createdAtFrom>>,
            Marshaled(params,
                authorizedApiRequest(token,
                    AxiosRequest("GET", url, Undefined, config, "data"))))

getNotification(userId, notificationId) ==
    LET url == ENDPOINT_URLS("notification", <<userId, notificationId>>)
    IN Call("getNotification", <<userId, notificationId>>,
            authorizedApiRequest(token,
                AxiosRequest("GET", url, Undefined, BearerConfig, "data")))

\* Faulty variant: updateNotifications resolves to the response body, as
\* updateNotification does.
updateNotifications_ReturnsData(userId, data) ==
    LET url == ENDPOINT_URLS("notifications", <<userId>>)
    IN Call("updateNotifications", <<userId, data>>,
            authorizedApiRequest(token,
                AxiosRequest("PATCH", url, data, BearerConfig, "data")))

updateNotifications(userId, data) ==
    LET url == ENDPOINT_URLS("notifications", <<userId>>)
    IN Call("updateNotifications", <<userId, data>>,
            authorizedApiRequest(token,
                AxiosRequest("PATCH", url, data, BearerConfig, "null")))

updateNotification(userId, notificationId, data) ==
    LET url == ENDPOINT_URLS("notification", <<userId, notificationId>>)
    IN Call("updateNotification", <<userId, notificationId, data>>,
            authorizedApiRequest(token,
                AxiosRequest("PATCH", url, data, BearerConfig, "data")))

getNotificationCount(userId) ==
    LET url == ENDPOINT_URLS("notificationCount", <<userId>>)
    IN Call("getNotificationCount", <<userId>>,
            authorizedApiRequest(token,
                AxiosRequest("GET", url, Undefined, BearerConfig, "data")))

\* getAxiosInstance() { return this._axios; }
getAxiosInstance == axios

(***************************************************************************)
(* Settlement: the transport settles a request in flight and the callback  *)
(* chained to it runs.                                                     *)
(***************************************************************************)
Settle(c, response, promise) ==
    /\ inflight' = inflight (-) SetToBag({c})
    /\ last' = [event |-> "settle", op |-> c.op, args |-> <<>>,
                tokenAtCall |-> c.tokenAtCall, request |-> c.request,
                response |-> response, promise |-> promise]
    /\ history' =
            IF c.op = "authorize" /\ response.ok
            THEN LET username == c.request.config.auth.v["username"]
                 IN [history EXCEPT
                        !.succeeded = @ \cup {username},
                        !.lastSuccess = username]
            ELSE history
    /\ UNCHANGED <<axios, defaults, other, helper>>

\* Faulty variant: the failure of the transport is wrapped in a new error.
TransportFails_Wraps(c, error) ==
    /\ Settle(c, [ok |-> FALSE, error |-> error],
              Settled("rejected", Error("Error", "Request failed")))
    /\ UNCHANGED <<token, authorizedRequestHeaders>>

\* Faulty variant: a request that failed is issued once more and its promise
\* stays pending.
TransportFails_Retries(c, error) ==
    /\ inflight' = inflight
    /\ last' = [event |-> "settle", op |-> c.op, args |-> <<>>,
                tokenAtCall |-> c.tokenAtCall, request |-> c.request,
                response |-> [ok |-> FALSE, error |-> error], promise |-> Pending]
    /\ UNCHANGED <<token, authorizedRequestHeaders, axios, defaults, other, helper,
                   history>>

\* Faulty variant: a failed request drops the token of the Session.
TransportFails_ClearsToken(c, error) ==
    /\ Settle(c, [ok |-> FALSE, error |-> error], Settled("rejected", error))
    /\ token' = Undefined
    /\ authorizedRequestHeaders' = buildAuthorizedRequestHeaders(Undefined)

\* The transport rejects: .then(onFulfilled) passes the rejection on.
TransportFails(c, error) ==
    /\ Settle(c, [ok |-> FALSE, error |-> error], Settled("rejected", error))
    /\ UNCHANGED <<token, authorizedRequestHeaders>>

\* Faulty variant: the callback of the other methods stores a token as the
\* callback of authorize does.
ThenResponseData_StoresToken(c, response) ==
    /\ c.next = "data"
    /\ Settle(c, response, Settled("fulfilled", response.data))
    /\ token' = IF Nullish(response.data) THEN Undefined
                ELSE GetProp(response.data, "token")
    /\ authorizedRequestHeaders' = buildAuthorizedRequestHeaders(token')

\* .then(response => response.data)
ThenResponseData(c, response) ==
    /\ c.next = "data"
    /\ Settle(c, response, Settled("fulfilled", response.data))
    /\ UNCHANGED <<token, authorizedRequestHeaders>>

\* .then(() => null)
\* Faulty variant: the callback hands back a promise that nobody settles.
ThenNull_Hangs(c, response) ==
    /\ c.next = "null"
    /\ Settle(c, response, Pending)
    /\ UNCHANGED <<token, authorizedRequestHeaders>>

ThenNull(c, response) ==
    /\ c.next = "null"
    /\ Settle(c, response, Settled("fulfilled", Null))
    /\ UNCHANGED <<token, authorizedRequestHeaders>>

TokenTypeError == Error("TypeError", "Cannot read property 'token'")

\* Faulty variant: the callback returns the token, not response.data.
ThenAuthorize_ResolvesToken(c, response) ==
    /\ c.next = "authorize"
    /\ IF Nullish(response.data)
       THEN /\ Settle(c, response, Settled("rejected", TokenTypeError))
            /\ UNCHANGED <<token, authorizedRequestHeaders>>
       ELSE /\ token' = GetProp(response.data, "token")
            /\ authorizedRequestHeaders' = buildAuthorizedRequestHeaders(token')
            /\ Settle(c, response, Settled("fulfilled", token'))

\* Faulty variant: the callback does not store the token.
ThenAuthorize_NoStore(c, response) ==
    /\ c.next = "authorize"
    /\ IF Nullish(response.data)
       THEN Settle(c, response, Settled("rejected", TokenTypeError))
       ELSE Settle(c, response, Settled("fulfilled", response.data))
    /\ UNCHANGED <<token, authorizedRequestHeaders>>

\* Faulty variant: the callback stores the token and keeps the old headers.
ThenAuthorize_StaleHeaders(c, response) ==
    /\ c.next = "authorize"
    /\ IF Nullish(response.data)
       THEN /\ Settle(c, response, Settled("rejected", TokenTypeError))
            /\ UNCHANGED token
       ELSE /\ token' = GetProp(response.data, "token")
            /\ Settle(c, response, Settled("fulfilled", response.data))
    /\ UNCHANGED authorizedRequestHeaders

\* The callback of authorize: response.data.token throws a TypeError when
\* response.data is undefined or null, which rejects the promise.
\* Faulty variant: a token once stored is kept, so the first authorize to
\* complete decides.
ThenAuthorize_KeepsExisting(c, response) ==
    /\ c.next = "authorize"
    /\ IF Nullish(response.data)
       THEN /\ Settle(c, response, Settled("rejected", TokenTypeError))
            /\ UNCHANGED <<token, authorizedRequestHeaders>>
       ELSE /\ token' = IF token = Undefined
                        THEN GetProp(response.data, "token") ELSE token
            /\ authorizedRequestHeaders' = buildAuthorizedRequestHeaders(token')
            /\ Settle(c, response, Settled("fulfilled", response.data))

ThenAuthorize(c, response) ==
    /\ c.next = "authorize"
    /\ IF Nullish(response.data)
       THEN /\ Settle(c, response, Settled("rejected", TokenTypeError))
            /\ UNCHANGED <<token, authorizedRequestHeaders>>
       ELSE /\ token' = GetProp(response.data, "token")
            /\ authorizedRequestHeaders' = buildAuthorizedRequestHeaders(token')
            /\ Settle(c, response, Settled("fulfilled", response.data))

\* The server grants the users first and second a token each; any other
\* user gets any of the authorization bodies.
GrantedTokens == [first |-> Str("t1"), second |-> Str("t2")]

ResponseBodies(c) ==
    IF c.op = "authorize"
    THEN LET username == c.request.config.auth.v["username"].v
         IN IF username \in DOMAIN GrantedTokens
            THEN {Obj([token |-> GrantedTokens[username]])}
            ELSE AuthorizationBodies
    ELSE ResourceBodies

Response(body) == [ok |-> TRUE, data |-> body]

Settles ==
    \/ \E c \in BagToSet(inflight), error \in TransportErrors :
            TransportFails(c, error)
    \/ \E c \in BagToSet(inflight) : \E body \in ResponseBodies(c) :
            ThenResponseData(c, Response(body))
    \/ \E c \in BagToSet(inflight) : \E body \in ResponseBodies(c) :
            ThenNull(c, Response(body))
    \/ \E c \in BagToSet(inflight) : \E body \in ResponseBodies(c) :
            ThenAuthorize(c, Response(body))

(***************************************************************************)
(* The caller.                                                             *)
(***************************************************************************)
\* The identifiers of the narrow and wide sets, and identifiers of any kind:
\* a number, a string with a slash in it, a missing argument.
PlainIds == [prefix \in {"u", "f", "s", "n"} |-> Ids(prefix)]
AnyIds ==
    [prefix \in {"u", "f", "s", "n"} |->
        Ids(prefix) \cup {Num(2), Str("a/b"), Undefined}]

\* Dates on both sides of the half second.
FineDates ==
    {Date(1444626600, 0), Date(1444626600, 499),
     Date(1492878600, 500), Date(1492878600, 999), Date(0, 1)}

\* One call of one method, its arguments drawn from the sets given.
CallsWith(wide, ids, dates) ==
    \/ \E note \in Optional(Notes, wide), resources \in Optional(Resources, wide),
          validMinutes \in Optional(Minutes, wide) :
            authorize(Str("user"), Str("pw"), note, resources, validMinutes)
    \/ \E userId \in ids["u"] : getUser(userId)
    \/ \E userId \in ids["u"] : getFeeds(userId)
    \/ \E feedId \in ids["f"] : getFeed(feedId)
    \/ \E feedId \in ids["f"], types \in Optional(Types, wide),
          channels \in Optional(Channels, wide),
          dataTimeFrom \in dates,
          dataTimeTo \in dates :
            getStreams(feedId, types, channels, dataTimeFrom, dataTimeTo)
    \/ \E feedId \in ids["f"], streamId \in ids["s"] :
            getStream(feedId, streamId)
    \/ \E feedId \in ids["f"], streamId \in ids["s"],
          timeFrom \in dates, timeTo \in dates,
          limit \in Optional(Limits, wide) :
            getStreamData(feedId, streamId, timeFrom, timeTo, limit)
    \/ \E feedId \in ids["f"] : getRelatedStreams(feedId)
    \/ \E userId \in ids["u"], createdAtFrom \in dates :
            getNotifications(userId, createdAtFrom)
    \/ \E userId \in ids["u"], notificationId \in ids["n"] :
            getNotification(userId, notificationId)
    \/ \E userId \in ids["u"], data \in Optional(Patches, wide) :
            updateNotifications(userId, data)
    \/ \E userId \in ids["u"], notificationId \in ids["n"],
          data \in Optional(Patches, wide) :
            updateNotification(userId, notificationId, data)
    \/ \E userId \in ids["u"] : getNotificationCount(userId)

\* The calls of the narrow or of the wide sets.
Calls(wide) == CallsWith(wide, PlainIds, Optional(Dates, wide))

\* The Session right after new Energomonitor(token).
Init ==
    /\ \E tokenArg \in ConstructorTokens : Constructor(tokenArg, Undefined, Undefined)
    /\ helper = Undefined

\* A caller that issues calls while earlier ones are still in flight.
Next == Calls(FALSE) \/ Settles

Spec == Init /\ [][Next]_vars

\* A caller that awaits every call before the next one, over all the
\* argument values.
NextSeq == (inflight = EmptyBag /\ Calls(TRUE)) \/ Settles

SpecSeq == Init /\ [][NextSeq]_vars

\* A caller that awaits every call and passes identifiers of any kind.
NextIds ==
    \/ inflight = EmptyBag /\ CallsWith(FALSE, AnyIds, {Undefined})
    \/ Settles

SpecIds == Init /\ [][NextIds]_vars

\* A caller that awaits every call and passes dates on both sides of the
\* half second.
NextDates ==
    \/ inflight = EmptyBag /\ CallsWith(FALSE, PlainIds, FineDates \cup {Undefined})
    \/ Settles

SpecDates == Init /\ [][NextDates]_vars

\* A caller that awaits every call and passes, for a date, also values that
\* cannot be converted: the Invalid Date and a string.
BadDates == {InvalidDate, Str("2015-10-12"), Date(1444626600, 0)}

NextBadDates ==
    \/ inflight = EmptyBag /\ CallsWith(FALSE, PlainIds, BadDates \cup {Undefined})
    \/ Settles

SpecBadDates == Init /\ [][NextBadDates]_vars

\* A caller that authorizes as the user first, then as the user second any
\* number of times, without waiting for the answers, among other calls.
NextRace ==
    \/ /\ ~history.authorizeCalled
       /\ authorize(Str("first"), Str("pw"), Undefined, Undefined, Undefined)
    \/ /\ history.authorizeCalled
       /\ authorize(Str("second"), Str("pw"), Undefined, Undefined, Undefined)
    \/ getUser(Str("u1"))
    \/ updateNotifications(Str("u1"), Undefined)
    \/ Settles

SpecRace == Init /\ [][NextRace]_vars

\* Values a caller can hand to the constructor as the token.
AnyTokens == {Undefined, Null, Str(""), Str("t1"), Num(0)}

\* The Session right after new Energomonitor(token), for any of them.
InitTokens ==
    /\ \E tokenArg \in AnyTokens : Constructor(tokenArg, Undefined, Undefined)
    /\ helper = Undefined

\* A caller that awaits every call before the next one.
NextTokens == (inflight = EmptyBag /\ Calls(FALSE)) \/ Settles

SpecTokens == InitTokens /\ [][NextTokens]_vars

\* A caller that calls authorize, getUser and updateNotifications again and
\* again, each as soon as its previous call has been answered, and a
\* transport that leaves no request unanswered for ever.
LiveOps == {"authorize", "getUser", "updateNotifications"}

InFlightOf(op) == \E c \in BagToSet(inflight) : c.op = op

NextLive ==
    \/ /\ ~InFlightOf("authorize")
       /\ authorize(Str("user"), Str("pw"), Undefined, Undefined, Undefined)
    \/ /\ ~InFlightOf("getUser")
       /\ getUser(Str("u1"))
    \/ /\ ~InFlightOf("updateNotifications")
       /\ updateNotifications(Str("u1"), Undefined)
    \/ Settles

\* The transport answers a request of the operation.
SettlesOf(op) == Settles /\ last'.op = op

SpecLive ==
    /\ Init
    /\ [][NextLive]_vars
    /\ \A op \in LiveOps : WF_vars(SettlesOf(op))

\* A program that constructs the Session with any of the constructor's
\* arguments, and at some point a second Session, with a new axios instance
\* or with the one the first Session was given.
ApiURLs == {Str("my.api.url"), Str("other.api.url")}

InitSessions ==
    /\ \E tokenArg \in ConstructorTokens, axiosInstance \in {Undefined, CustomAxios},
          apiURLArg \in ApiURLs \cup {Undefined} :
            Constructor(tokenArg, axiosInstance, apiURLArg)
    /\ helper = Undefined

NextSessions ==
    \/ inflight = EmptyBag /\ Calls(FALSE)
    \/ Settles
    \/ \E tokenArg \in ConstructorTokens, axiosInstance \in {Undefined, CustomAxios},
          apiURLArg \in ApiURLs \cup {Undefined} :
            ConstructOther(tokenArg, axiosInstance, apiURLArg)

SpecSessions == InitSessions /\ [][NextSessions]_vars

(***************************************************************************)
(* utils.js called on its own: authorizedApiRequest(token, f) with a       *)
(* function f that returns a value or makes a promise, which settles       *)
(* later.                                                                  *)
(***************************************************************************)
Promise(id) == [type |-> "promise", id |-> id]
Thunk(result) == [type |-> "function", returns |-> result]

\* The arguments of the helper.
HelperTokens == {Undefined, Null, Str(""), Str("my_token"), Num(0), Bool(FALSE)}
ThunkResults == {Num(10), Str("x"), Undefined, Null, Promise("p"), Promise("q")}
ThunkOutcomes ==
    {Settled("fulfilled", Num(10)), Settled("fulfilled", Null)}
        \cup {Settled("rejected", error) : error \in TransportErrors}

\* No promise made by f.
NotMade == [state |-> "none", value |-> Undefined]

\* The helper about to be called.
HelperReady(tokenArg, f) ==
    helper = [token |-> tokenArg, f |-> f, phase |-> "ready", invocations |-> 0,
              returned |-> Undefined, made |-> NotMade]

\* authorizedApiRequest(token, f) runs: f() is evaluated when the helper
\* returns it, and the promise f makes starts pending.
HelperCall ==
    LET invoked == [kind |-> "invoked", value |-> helper.f.returns]
        result == authorizedApiRequest(helper.token, invoked)
        ran == result = invoked
    IN /\ helper # Undefined
       /\ helper.phase = "ready"
       /\ helper' = [helper EXCEPT
                        !.phase = "returned",
                        !.invocations = IF ran THEN @ + 1 ELSE @,
                        !.returned = IF ran THEN result.value ELSE result,
                        !.made = IF ran /\ result.value.type = "promise"
                                 THEN Pending ELSE @]
       /\ UNCHANGED <<token, authorizedRequestHeaders, axios, defaults, inflight,
                      last, other, history>>

\* The promise f made settles.
ThunkPromiseSettles(outcome) ==
    /\ helper # Undefined
    /\ helper.made = Pending
    /\ helper' = [helper EXCEPT !.made = outcome]
    /\ UNCHANGED <<token, authorizedRequestHeaders, axios, defaults, inflight,
                   last, other, history>>

InitHelper ==
    /\ Constructor(Undefined, Undefined, Undefined)
    /\ \E tokenArg \in HelperTokens, result \in ThunkResults :
            HelperReady(tokenArg, Thunk(result))

NextHelper ==
    \/ HelperCall
    \/ \E outcome \in ThunkOutcomes : ThunkPromiseSettles(outcome)

SpecHelper == InitHelper /\ [][NextHelper]_vars

(***************************************************************************)
(* Vocabulary of the properties.                                           *)
(***************************************************************************)
AuthenticatedOps ==
    {"getUser", "getFeeds", "getFeed", "getStreams", "getStream",
     "getStreamData", "getRelatedStreams", "getNotifications",
     "getNotification", "updateNotifications", "updateNotification",
     "getNotificationCount"}

\* The rejection of the gate, as the specification words it.
NotAuthorized ==
    Settled("rejected",
            Str("Cannot call this method without setting the authorization token (in the constructor or using the authorize method)."))

\* {Content-Type: application/json, Authorization: "Bearer " + credential};
\* "Bearer undefined" is what JavaScript makes of an unset credential.
BearerHeaderSet(credential) ==
    Obj(("Content-Type" :> Str("application/json"))
        @@ ("Authorization" :>
                Str("Bearer " \o (IF credential = Undefined
                                  THEN "undefined" ELSE credential.v))))

IsCall(event) == event.event = "call"
IsSettlement(event) == event.event = "settle"
Sent(event) == event.request # Undefined
AuthorizeInFlight == \E c \in BagToSet(inflight) : c.op = "authorize"

\* The last step was an authorize whose transport call succeeded with an
\* object for a body.
AuthorizeSucceeded(event) ==
    /\ IsSettlement(event)
    /\ event.op = "authorize"
    /\ event.response.ok
    /\ event.response.data.type = "object"

\* b.token of a body b that is an object.
TokenOf(body) == IF "token" \in DOMAIN body.v THEN body.v["token"] ELSE Undefined

(***************************************************************************)
(* C1.  Every method other than authorize, called while the credential is  *)
(* unset, returns a promise rejected with exactly the NotAuthorized        *)
(* message and issues no transport call: the call hands no request to the  *)
(* transport, and no request in flight stems from such a call.             *)
(***************************************************************************)
C1_UnsetCredentialIsRejected ==
    /\ (IsCall(last) /\ last.op \in AuthenticatedOps /\ last.tokenAtCall = Undefined)
            => (last.promise = NotAuthorized /\ ~Sent(last))
    /\ \A c \in BagToSet(inflight) :
            c.op \in AuthenticatedOps => c.tokenAtCall # Undefined

\* A call rejected by the gate after an authorize was tried and a transport
\* completion left the credential unset.
C1_Witness ==
    /\ IsCall(last)
    /\ last.op = "updateNotification"
    /\ last.tokenAtCall = Undefined
    /\ last.promise.state = "rejected"
    /\ history.authorizeCalled
    /\ inflight = EmptyBag

(***************************************************************************)
(* C2.  Once the credential is set, no step makes it unset again.          *)
(***************************************************************************)
C2_AuthorizedIsTerminal == [][token # Undefined => token' # Undefined]_vars

(***************************************************************************)
(* C3.  When the transport call of authorize succeeds with body b, the     *)
(* credential becomes b.token, the header set becomes {Content-Type:       *)
(* application/json, Authorization: "Bearer " + b.token}, and the promise  *)
(* of authorize resolves to b.                                             *)
(***************************************************************************)
C3_AuthorizeStoresToken ==
    AuthorizeSucceeded(last) =>
        /\ token = TokenOf(last.response.data)
        /\ authorizedRequestHeaders = BearerHeaderSet(TokenOf(last.response.data))
        /\ last.promise = Settled("fulfilled", last.response.data)

\* An authorize that replaced the constructor's token t1 by t2.
C3_Witness ==
    /\ AuthorizeSucceeded(last)
    /\ last.response.data = Obj([token |-> Str("t2")])
    /\ last.tokenAtCall = Str("t1")
    /\ token = Str("t2")

(***************************************************************************)
(* C4.  The token is stored before the promise of authorize is seen        *)
(* resolved: an authenticated operation called right after an authorize    *)
(* resolved with a token passes the gate and sends its request with the    *)
(* Bearer header of that token.                                            *)
(***************************************************************************)
C4_RetryAfterAuthorize ==
    [][(/\ AuthorizeSucceeded(last)
        /\ last.promise.state = "fulfilled"
        /\ TokenOf(last.response.data) # Undefined
        /\ IsCall(last')
        /\ last'.op \in AuthenticatedOps)
       => (/\ last'.promise = Pending
           /\ Sent(last')
           /\ last'.request.config.headers
                = BearerHeaderSet(TokenOf(last.response.data))
           /\ BagCardinality(inflight') = BagCardinality(inflight) + 1)]_vars

\* A Session constructed without a token whose authenticated call went out
\* with the token of an authorize response.
C4_Witness ==
    /\ history.constructorToken = Undefined
    /\ IsCall(last)
    /\ last.op = "getFeeds"
    /\ Sent(last)
    /\ last.request.config.headers = BearerHeaderSet(Str("t2"))
    /\ inflight = SetToBag({[op |-> "getFeeds", request |-> last.request,
                             next |-> "data", tokenAtCall |-> Str("t2"),
                             baseURL |-> DefaultApiURL,
                             serialized |-> Undefined]})

(***************************************************************************)
(* C5.  A Session constructed with a token is authorized from the start:   *)
(* as long as authorize was never called, every authenticated operation    *)
(* passes the gate and its transport call carries {Content-Type:           *)
(* application/json, Authorization: "Bearer " + the constructor's token}.  *)
(***************************************************************************)
C5_ConstructorTokenAuthorizes ==
    (/\ IsCall(last)
     /\ last.op \in AuthenticatedOps
     /\ history.constructorToken # Undefined
     /\ ~history.authorizeCalled)
        => /\ last.promise = Pending
           /\ Sent(last)
           /\ last.request.config.headers = BearerHeaderSet(history.constructorToken)
           /\ \E c \in BagToSet(inflight) :
                c.op = last.op /\ c.request = last.request

C5_Witness ==
    /\ IsCall(last)
    /\ last.op = "getFeed"
    /\ history.constructorToken = Str("t1")
    /\ ~history.authorizeCalled
    /\ Sent(last)
    /\ last.request.url = "/feeds/f1"

(***************************************************************************)
(* C6.  The gate decides on the credential at the time of the call and     *)
(* the decision stands: an authenticated operation called while the        *)
(* credential is unset and an authorize is in flight is rejected with the  *)
(* NotAuthorized message at once and sends nothing, and no settlement      *)
(* (that authorize succeeding included) sends a request for it later.      *)
(***************************************************************************)
C6_GateDecidesAtCall ==
    [][/\ (/\ IsCall(last')
           /\ last'.op \in AuthenticatedOps
           /\ token = Undefined
           /\ AuthorizeInFlight)
          => (last'.promise = NotAuthorized /\ inflight' = inflight)
       /\ IsSettlement(last')
          => (\E c \in BagToSet(inflight) : inflight' = inflight (-) SetToBag({c}))]_vars

C6_Witness ==
    /\ IsCall(last)
    /\ last.op = "getUser"
    /\ last.tokenAtCall = Undefined
    /\ last.promise = NotAuthorized
    /\ AuthorizeInFlight

(***************************************************************************)
(* C7.  Every request of an operation other than authorize carries the     *)
(* header set of the credential that was current when the method was       *)
(* called, whatever authorize calls complete while it is in flight, and a  *)
(* call made after such a completion carries the new credential.           *)
(***************************************************************************)
C7_RequestCarriesTokenAtCall ==
    /\ \A c \in BagToSet(inflight) :
            c.op \in AuthenticatedOps
                => c.request.config.headers = BearerHeaderSet(c.tokenAtCall)
    /\ (IsCall(last) /\ last.op \in AuthenticatedOps /\ Sent(last))
            => (/\ last.tokenAtCall = token
                /\ last.request.config.headers = BearerHeaderSet(token))

\* A request called under t1 is still in flight with "Bearer t1" after an
\* authorize completed with t2, and the call made since carries "Bearer t2".
C7_Witness ==
    /\ token = Str("t2")
    /\ \E c \in BagToSet(inflight) :
            /\ c.op = "getStreamData"
            /\ c.tokenAtCall = Str("t1")
            /\ c.request.config.headers = BearerHeaderSet(Str("t1"))
    /\ IsCall(last)
    /\ last.op = "getStream"
    /\ last.request.config.headers = BearerHeaderSet(Str("t2"))

(***************************************************************************)
(* C8.  In every reachable state the stored header set is {Content-Type:   *)
(* application/json, Authorization: "Bearer " + credential} for the        *)
(* credential stored at that moment.                                       *)
(***************************************************************************)
C8_HeadersMatchCredential == authorizedRequestHeaders = BearerHeaderSet(token)

C8_Witness ==
    /\ history.constructorToken = Str("t1")
    /\ token = Str("t2")
    /\ authorizedRequestHeaders = BearerHeaderSet(Str("t2"))
    /\ inflight # EmptyBag

(***************************************************************************)
(* C9.  authorize is exempt from the gate: called with the credential      *)
(* unset or set, it sends exactly one POST /authorizations with HTTP Basic *)
(* credentials {username, password} from its first two arguments and       *)
(* without the Bearer header set.                                          *)
(***************************************************************************)
C9_AuthorizeIsExempt ==
    [][(IsCall(last') /\ last'.op = "authorize")
       => /\ last'.promise = Pending
          /\ Sent(last')
          /\ last'.request.method = "POST"
          /\ last'.request.url = "/authorizations"
          /\ last'.request.config.auth
                = Obj([username |-> last'.args[1], password |-> last'.args[2]])
          /\ last'.request.config.headers = Undefined
          /\ \E c \in BagToSet(inflight') :
                /\ c.op = "authorize"
                /\ c.request = last'.request
                /\ inflight' = inflight (+) SetToBag({c})]_vars

C9_Witness ==
    /\ IsCall(last)
    /\ last.op = "authorize"
    /\ last.tokenAtCall = Undefined
    /\ token = Undefined
    /\ Sent(last)
    /\ last.request.config.auth
            = Obj([username |-> Str("user"), password |-> Str("pw")])

(***************************************************************************)
(* C10.  Optional inputs that are not given leave no key in the payload:   *)
(* the body of authorize has exactly the keys note, resources and          *)
(* valid_minutes of the given note, resources and validMinutes (and is an  *)
(* empty object when none is given), the query of getStreams exactly the   *)
(* keys type, channel, data_time_from and data_time_to of the given        *)
(* arguments, the query of getStreamData exactly time_from, time_to and    *)
(* limit, and the query of getNotifications exactly created_at_from; the   *)
(* values of note, resources, validMinutes, types, channels and limit      *)
(* pass through unchanged.                                                 *)
(***************************************************************************)
\* For each method, the position of every optional argument with its key,
\* and the positions whose value goes out as given.
WireKeys(op) ==
    CASE op = "authorize" -> {<<3, "note">>, <<4, "resources">>, <<5, "valid_minutes">>}
      [] op = "getStreams" ->
            {<<2, "type">>, <<3, "channel">>, <<4, "data_time_from">>,
             <<5, "data_time_to">>}
      [] op = "getStreamData" -> {<<3, "time_from">>, <<4, "time_to">>, <<5, "limit">>}
      [] op = "getNotifications" -> {<<2, "created_at_from">>}
      [] OTHER -> {}

PassedThrough(op) ==
    CASE op = "authorize" -> {3, 4, 5}
      [] op = "getStreams" -> {2, 3}
      [] op = "getStreamData" -> {5}
      [] OTHER -> {}

\* The payload of a request: the body of authorize, the query of the others.
Payload(event) ==
    IF event.op = "authorize" THEN event.request.data ELSE event.request.config.params

C10_OmittedArgumentsLeaveNoKey ==
    (IsCall(last) /\ Sent(last) /\ WireKeys(last.op) # {})
        => /\ Payload(last).type = "object"
           /\ DOMAIN Payload(last).v
                = {p[2] : p \in {q \in WireKeys(last.op) : last.args[q[1]] # Undefined}}
           /\ \A p \in WireKeys(last.op) :
                (p[1] \in PassedThrough(last.op) /\ last.args[p[1]] # Undefined)
                    => Payload(last).v[p[2]] = last.args[p[1]]

\* getStreams with a list of types and dataTimeFrom, the rest left out.
C10_Witness ==
    /\ IsCall(last)
    /\ last.op = "getStreams"
    /\ Sent(last)
    /\ last.args[2] = List(<<Str("raw"), Str("processed")>>)
    /\ last.args[3] = Undefined
    /\ last.args[4] # Undefined
    /\ last.args[5] = Undefined
    /\ DOMAIN last.request.config.params.v = {"type", "data_time_from"}

(***************************************************************************)
(* C11: every request a method sends has the HTTP method and the path of   *)
(* the endpoint table, with the identifiers the caller passed written into *)
(* the path as they are: a number in decimal, a string unescaped, a        *)
(* missing identifier as the word undefined.                               *)
(***************************************************************************)
\* An identifier as it reads in a path.
IdText(id) ==
    CASE id = Undefined -> "undefined"
      [] id = Num(2) -> "2"
      [] OTHER -> id.v

\* The endpoint table: the HTTP method and the path of each operation.
TableMethod(op) ==
    CASE op = "authorize" -> "POST"
      [] op \in {"updateNotifications", "updateNotification"} -> "PATCH"
      [] OTHER -> "GET"

TablePath(op, a) ==
    CASE op = "authorize" -> "/authorizations"
      [] op = "getUser" -> "/users/" \o IdText(a[1])
      [] op = "getFeeds" -> "/users/" \o IdText(a[1]) \o "/feeds"
      [] op = "getFeed" -> "/feeds/" \o IdText(a[1])
      [] op = "getStreams" -> "/feeds/" \o IdText(a[1]) \o "/streams"
      [] op = "getStream" ->
            "/feeds/" \o IdText(a[1]) \o "/streams/" \o IdText(a[2])
      [] op = "getStreamData" ->
            "/feeds/" \o IdText(a[1]) \o "/streams/" \o IdText(a[2]) \o "/data"
      [] op = "getRelatedStreams" ->
            "/feeds/" \o IdText(a[1]) \o "/related_streams"
      [] op = "getNotifications" -> "/users/" \o IdText(a[1]) \o "/notifications"
      [] op = "getNotification" ->
            "/users/" \o IdText(a[1]) \o "/notifications/" \o IdText(a[2])
      [] op = "updateNotifications" ->
            "/users/" \o IdText(a[1]) \o "/notifications"
      [] op = "updateNotification" ->
            "/users/" \o IdText(a[1]) \o "/notifications/" \o IdText(a[2])
      [] op = "getNotificationCount" ->
            "/users/" \o IdText(a[1]) \o "/notification_count"

C11_MethodAndPathOfTheTable ==
    (IsCall(last) /\ Sent(last))
        => /\ last.request.method = TableMethod(last.op)
           /\ last.request.url = TablePath(last.op, last.args)

\* getStreamData with a number for the feed and a string with a slash for
\* the stream.
C11_Witness ==
    /\ IsCall(last)
    /\ Sent(last)
    /\ last.op = "getStreamData"
    /\ last.args[1] = Num(2)
    /\ last.args[2] = Str("a/b")
    /\ last.request.method = "GET"
    /\ last.request.url = "/feeds/2/streams/a/b/data"

(***************************************************************************)
(* C12: the Unix seconds that getStreams and getStreamData send for a date *)
(* are the whole seconds of the date: for a date m milliseconds after the  *)
(* epoch the value sent is floor(m / 1000), whatever the milliseconds.     *)
(***************************************************************************)
\* The date arguments of the two methods and the query keys they go to.
UnixDateKeys(op) ==
    CASE op = "getStreams" -> {<<4, "data_time_from">>, <<5, "data_time_to">>}
      [] op = "getStreamData" -> {<<3, "time_from">>, <<4, "time_to">>}
      [] OTHER -> {}

\* floor(m / 1000) of a date of m = sec * 1000 + ms milliseconds.
FloorSeconds(date) == date.sec + (date.ms \div 1000)

C12_ConversionTruncates ==
    (IsCall(last) /\ Sent(last))
        => \A p \in UnixDateKeys(last.op) :
            last.args[p[1]] # Undefined
                => last.request.config.params.v[p[2]]
                        = Num(FloorSeconds(last.args[p[1]]))

(***************************************************************************)
(* C13: getNotifications sends createdAtFrom under created_at_from as the  *)
(* ISO-8601 string of the date, with milliseconds and a Z, and never as a  *)
(* number; the other four date parameters go out as a whole number of      *)
(* seconds, within a second of the date, and never as a string.            *)
(***************************************************************************)
\* The ISO-8601 strings of the dates the caller passes.
IsoText(date) ==
    CASE date = Date(1444626600, 0) -> "2015-10-12T05:10:00.000Z"
      [] date = Date(1444626600, 499) -> "2015-10-12T05:10:00.499Z"
      [] date = Date(1492878600, 500) -> "2017-04-22T16:30:00.500Z"
      [] date = Date(1492878600, 999) -> "2017-04-22T16:30:00.999Z"
      [] date = Date(0, 1) -> "1970-01-01T00:00:00.001Z"

C13_IsoForNotificationsSecondsElsewhere ==
    (IsCall(last) /\ Sent(last))
        => /\ (last.op = "getNotifications" /\ last.args[2] # Undefined)
                => last.request.config.params.v["created_at_from"]
                        = Str(IsoText(last.args[2]))
           /\ \A p \in UnixDateKeys(last.op) :
                last.args[p[1]] # Undefined
                    => LET sent == last.request.config.params.v[p[2]]
                       IN /\ sent.type = "number"
                          /\ sent.v \in {last.args[p[1]].sec,
                                         last.args[p[1]].sec + 1}

\* getNotifications with a date half a second past 16:30.
C13_Witness ==
    /\ IsCall(last)
    /\ Sent(last)
    /\ last.op = "getNotifications"
    /\ last.args[2] = Date(1492878600, 500)
    /\ last.request.config.params.v["created_at_from"]
            = Str("2017-04-22T16:30:00.500Z")

(***************************************************************************)
(* C14: when getStreams is given a list of types or of channels, the query *)
(* string has the key once for every element of the list, in the order of  *)
(* the list, each time with one element for a value (type=raw&             *)
(* type=processed); no key of the string is bracketed or indexed and no    *)
(* value is a joined list.                                                 *)
(***************************************************************************)
\* An element of a list as it reads in a query string.
ElementText(element) ==
    CASE element = Num(1) -> "1"
      [] element = Num(2) -> "2"
      [] element = Num(3) -> "3"
      [] OTHER -> element.v

\* The list arguments of getStreams and their keys.
ListKeys == {<<2, "type">>, <<3, "channel">>}

C14_ListsRepeatTheKey ==
    (IsCall(last) /\ Sent(last) /\ last.op = "getStreams")
        => \A c \in BagToSet(inflight) :
            c.request = last.request
                => /\ \A i \in 1..Len(c.serialized) :
                        c.serialized[i][1] \in
                            {"type", "channel", "data_time_from", "data_time_to"}
                   /\ \A p \in ListKeys :
                        LET list == last.args[p[1]]
                        IN list.type = "array"
                            => SelectSeq(c.serialized, LAMBDA pair : pair[1] = p[2])
                                = [i \in 1..Len(list.v) |->
                                        <<p[2], ElementText(list.v[i])>>]

\* getStreams with two types and three channels.
C14_Witness ==
    /\ IsCall(last)
    /\ Sent(last)
    /\ last.op = "getStreams"
    /\ last.args[2] = List(<<Str("raw"), Str("processed")>>)
    /\ last.args[3] = List(<<Num(1), Num(2), Num(3)>>)
    /\ last.args[4] = Undefined
    /\ last.args[5] = Undefined
    /\ \E c \in BagToSet(inflight) :
        /\ c.request = last.request
        /\ QueryString(c.serialized)
                = "type=raw&type=processed&channel=1&channel=2&channel=3"

(***************************************************************************)
(* C15: updateNotifications and updateNotification send the data of the   *)
(* caller as the body of a PATCH as it is, and no body when data is left   *)
(* out; when the transport succeeds, updateNotifications resolves to null  *)
(* whatever the response body, updateNotification to the response body.    *)
(***************************************************************************)
C15_PatchBodyAndResolution ==
    /\ (IsCall(last) /\ Sent(last) /\ last.op = "updateNotifications")
            => /\ last.request.method = "PATCH"
               /\ last.request.data = last.args[2]
    /\ (IsCall(last) /\ Sent(last) /\ last.op = "updateNotification")
            => /\ last.request.method = "PATCH"
               /\ last.request.data = last.args[3]
    /\ (IsSettlement(last) /\ last.response.ok /\ last.op = "updateNotifications")
            => last.promise = Settled("fulfilled", Null)
    /\ (IsSettlement(last) /\ last.response.ok /\ last.op = "updateNotification")
            => last.promise = Settled("fulfilled", last.response.data)

\* updateNotifications without data, answered with an object.
C15_Witness ==
    /\ IsSettlement(last)
    /\ last.op = "updateNotifications"
    /\ last.request.data = Undefined
    /\ last.response.ok
    /\ last.response.data = Obj([id |-> Str("x")])
    /\ last.promise = Settled("fulfilled", Null)

(***************************************************************************)
(* C16: when the transport fails a request with an error, the promise of   *)
(* the method that sent it, authorize included, is rejected with that very *)
(* error, not wrapped and not replaced.                                    *)
(***************************************************************************)
C16_TransportErrorPassesThrough ==
    (IsSettlement(last) /\ ~last.response.ok)
        => last.promise = Settled("rejected", last.response.error)

\* authorize failed by the network, with another call still in flight.
C16_Witness ==
    /\ IsSettlement(last)
    /\ last.op = "authorize"
    /\ ~last.response.ok
    /\ last.response.error = Error("Error", "Network Error")
    /\ last.promise = Settled("rejected", Error("Error", "Network Error"))
    /\ \E c \in BagToSet(inflight) : c.op = "updateNotifications"

(***************************************************************************)
(* C17: a call ends in one of three ways and no other: fulfilled with the  *)
(* success value of the operation, rejected with the NotAuthorized message,*)
(* or rejected with the error of the transport.  That holds for authorize  *)
(* too, whatever the body of the successful response, absent or without a  *)
(* token.                                                                  *)
(***************************************************************************)
\* The value a successful response resolves the operation to.
SuccessValue(event) ==
    IF event.op = "updateNotifications" THEN Null ELSE event.response.data

C17_ThreeOutcomesOnly ==
    last.promise # Pending
        => \/ /\ IsSettlement(last)
              /\ last.response.ok
              /\ last.promise = Settled("fulfilled", SuccessValue(last))
           \/ /\ IsCall(last)
              /\ last.op \in AuthenticatedOps
              /\ last.promise = NotAuthorized
           \/ /\ IsSettlement(last)
              /\ ~last.response.ok
              /\ last.promise = Settled("rejected", last.response.error)

(***************************************************************************)
(* C18: once the Session is constructed, the base URL of its axios         *)
(* instance is the apiURL argument, or https://api.energomonitor.com/v1    *)
(* when there is none, whether the instance was created by the constructor *)
(* or handed to it; an instance handed in loses the base URL it had, and   *)
(* getAxiosInstance returns that same instance.                            *)
(***************************************************************************)
\* The base URL a constructor call asks for.
AskedURL(apiURLArg) ==
    IF apiURLArg = Undefined THEN Str("https://api.energomonitor.com/v1")
    ELSE apiURLArg

C18_BaseURLIsApiURL ==
    /\ other = Undefined
        => /\ defaults[getAxiosInstance] = AskedURL(history.apiURL)
           /\ history.axiosInstance # Undefined
                => getAxiosInstance = history.axiosInstance
           /\ history.axiosInstance = Undefined
                => getAxiosInstance # CustomAxios
    /\ other # Undefined
        => /\ defaults[other.axios] = AskedURL(history.other.apiURL)
           /\ history.other.axiosInstance # Undefined
                => other.axios = history.other.axiosInstance
           /\ history.other.axiosInstance = Undefined
                => other.axios \notin {CustomAxios, axios}

\* An instance with a base URL of its own, handed in with an apiURL: the
\* request of the first call goes to the apiURL.
C18_Witness ==
    /\ other = Undefined
    /\ history.axiosInstance = CustomAxios
    /\ history.apiURL = Str("my.api.url")
    /\ FreshDefaults[CustomAxios] = Str("https://prior.example")
    /\ getAxiosInstance = CustomAxios
    /\ defaults[CustomAxios] = Str("my.api.url")
    /\ \E c \in BagToSet(inflight) : c.baseURL = Str("my.api.url")

(***************************************************************************)
(* C19: a call hands the transport at most one request: exactly one when   *)
(* the method is authorize or the token is set at the call, none when the  *)
(* gate rejects; and the completion of a request, a failure included, only *)
(* takes that request out of flight and never issues another.              *)
(***************************************************************************)
C19_AtMostOneTransportCall ==
    [][/\ IsCall(last')
            => /\ BagCardinality(inflight')
                    = BagCardinality(inflight)
                        + (IF last'.op = "authorize" \/ token # Undefined
                           THEN 1 ELSE 0)
               /\ \A c \in BagToSet(inflight') :
                    CopiesIn(c, inflight') > CopiesIn(c, inflight)
                        => c.op = last'.op /\ c.request = last'.request
       /\ IsSettlement(last')
            => /\ BagCardinality(inflight') = BagCardinality(inflight) - 1
               /\ \A c \in BagToSet(inflight') :
                    CopiesIn(c, inflight') <= CopiesIn(c, inflight)]_vars

\* A request failed by the transport, and nothing in flight after it.
C19_Witness ==
    /\ IsSettlement(last)
    /\ last.op = "getFeed"
    /\ ~last.response.ok
    /\ last.promise.state = "rejected"
    /\ inflight = EmptyBag

SharedInstance == other # Undefined /\ other.axios = axios

C21_OnlyAuthorizeTouchesCredential ==
    [][/\ last'.op # "authorize"
            => /\ token' = token
               /\ authorizedRequestHeaders' = authorizedRequestHeaders
       /\ axios' = axios
       /\ defaults' = defaults]_vars

\* A getFeed answered while the Session holds the token t1 and an authorize
\* is still in flight.
C21_Witness ==
    /\ IsSettlement(last)
    /\ last.op = "getFeed"
    /\ last.response.ok
    /\ token = Str("t1")
    /\ authorizedRequestHeaders = BearerHeaderSet(Str("t1"))
    /\ AuthorizeInFlight

(***************************************************************************)
(* C22: the token and the header set change only in the step in which the  *)
(* transport answers an authorize call successfully.  Calling authorize    *)
(* changes neither, and an authorize the transport fails leaves both as    *)
(* they were: unset if they were unset, the old token if there was one.    *)
(***************************************************************************)
C22_CredentialChangesOnlyOnSuccess ==
    [][/\ (token' # token \/ authorizedRequestHeaders' # authorizedRequestHeaders)
            => (IsSettlement(last') /\ last'.op = "authorize" /\ last'.response.ok)
       /\ (last'.op = "authorize" /\ (IsCall(last') \/ ~last'.response.ok))
            => /\ token' = token
               /\ authorizedRequestHeaders' = authorizedRequestHeaders]_vars

\* An authorize failed by the transport on a Session that keeps its token.
C22_Witness ==
    /\ IsSettlement(last)
    /\ last.op = "authorize"
    /\ ~last.response.ok
    /\ history.constructorToken = Str("t1")
    /\ token = Str("t1")
    /\ authorizedRequestHeaders = BearerHeaderSet(Str("t1"))

(***************************************************************************)
(* C23: authorizedApiRequest(token, f) with a token other than undefined   *)
(* runs f once, at the call, and returns what f returned: the same value,  *)
(* or the same promise whether it is later fulfilled or rejected.  With    *)
(* the token undefined it does not run f and returns a promise rejected    *)
(* with the message; it does not throw.                                    *)
(***************************************************************************)
C23_HelperContract ==
    (helper # Undefined /\ helper.phase = "returned")
        => IF helper.token = Undefined
           THEN /\ helper.invocations = 0
                /\ helper.made = NotMade
                /\ helper.returned = [kind |-> "rejected", value |-> NotAuthorized.value]
           ELSE /\ helper.invocations = 1
                /\ helper.returned = helper.f.returns
                /\ helper.f.returns.type = "promise" <=> helper.made # NotMade

\* With the empty string for a token, f's promise is returned and then
\* rejected.
C23_Witness ==
    /\ helper # Undefined
    /\ helper.phase = "returned"
    /\ helper.token = Str("")
    /\ helper.invocations = 1
    /\ helper.returned = Promise("p")
    /\ helper.made = Settled("rejected", Error("Error", "Network Error"))

(***************************************************************************)
(* C24: in the methods behind the gate the token is checked before any     *)
(* argument is converted: called while the token is unset, such a method   *)
(* returns the promise rejected with the NotAuthorized message and sends   *)
(* nothing, whatever its optional arguments are, a date that cannot be     *)
(* converted included.                                                     *)
(***************************************************************************)
C24_GateBeforeMarshaling ==
    \A op \in AuthenticatedOps :
        (IsCall(last) /\ last.op = op /\ last.tokenAtCall = Undefined)
            => /\ last.promise.state = "rejected"
               /\ last.promise.value = NotAuthorized.value
               /\ last.request = Undefined

(***************************************************************************)
(* C25: with several authorize calls in flight, the token of the Session   *)
(* is at every moment that of the authorize answered successfully last, in *)
(* the order of the answers and not of the calls; an authorize that fails  *)
(* changes nothing of it.                                                  *)
(***************************************************************************)
C25_LastCompletionWins ==
    history.lastSuccess # Undefined
        => LET granted == IF history.lastSuccess = Str("first")
                          THEN Str("t1") ELSE Str("t2")
           IN /\ token = granted
              /\ authorizedRequestHeaders = BearerHeaderSet(granted)

\* Called first and answered last: both authorize calls have succeeded, the
\* one of the user first after the one of the user second.
C25_Witness ==
    /\ history.succeeded = {Str("first"), Str("second")}
    /\ history.lastSuccess = Str("first")
    /\ IsSettlement(last)
    /\ last.op = "authorize"
    /\ last.response.ok
    /\ inflight = EmptyBag
    /\ token = Str("t1")


(***************************************************************************)
(* C26: a call of an authenticated operation is turned away by the gate    *)
(* exactly when the stored token is undefined.  Under any other token,     *)
(* null and the empty string handed to the constructor among them, the     *)
(* call goes to the transport with the header "Bearer " followed by the    *)
(* string form of the token.                                               *)
(***************************************************************************)
C26_GateTestsUndefinedOnly ==
    (IsCall(last) /\ last.op \in AuthenticatedOps)
        => LET stored == last.tokenAtCall
               header == last.request.config.headers.v["Authorization"].v
           IN /\ stored = token
              /\ (last.promise = NotAuthorized) <=> (stored = Undefined)
              /\ Sent(last) <=> (stored # Undefined)
              /\ stored.type = "null" => header = "Bearer null"
              /\ stored.type = "string" => header = "Bearer " \o stored.v
              /\ stored.type = "number" => header = "Bearer 0"

\* A Session constructed with null has sent a request under "Bearer null".
C26_Witness ==
    /\ history.constructorToken = Null
    /\ ~history.authorizeCalled
    /\ IsCall(last)
    /\ last.op = "getFeeds"
    /\ Sent(last)
    /\ last.request.config.headers.v["Authorization"] = Str("Bearer null")


(***************************************************************************)
(* C27: when the transport answers every request in the end, the promise   *)
(* of every method call is settled in the end, and once: a request leaves  *)
(* the transport with the one step that settles its promise, and a promise *)
(* is pending only while its request is in flight.  A call turned away by  *)
(* the gate has its promise rejected in the step of the call, whatever is  *)
(* in flight, an authorize included.                                       *)
(***************************************************************************)
IsSettled(promise) == promise.state \in {"fulfilled", "rejected"}

\* The promise of the request of the operation has just been settled.
SettledOf(op) == IsSettlement(last) /\ last.op = op /\ IsSettled(last.promise)

\* A call either adds its request and is pending, or is settled at once; a
\* settlement removes exactly the request it settles.
SettlesOnceStep ==
    IF IsCall(last')
    THEN IF last'.promise = Pending
         THEN /\ BagCardinality(inflight') = BagCardinality(inflight) + 1
              /\ \E c \in BagToSet(inflight') :
                    /\ c.op = last'.op
                    /\ c.request = last'.request
                    /\ inflight' = inflight (+) SetToBag({c})
         ELSE /\ inflight' = inflight
              /\ IsSettled(last'.promise)
    ELSE /\ IsSettlement(last')
         /\ IsSettled(last'.promise)
         /\ \E c \in BagToSet(inflight) :
                /\ c.op = last'.op
                /\ c.request = last'.request
                /\ inflight' = inflight (-) SetToBag({c})

GateSettlesAtCall ==
    (IsCall(last) /\ last.op \in AuthenticatedOps /\ last.tokenAtCall = Undefined)
        => (last.promise = NotAuthorized /\ ~Sent(last))

C27_EveryPromiseSettlesOnce ==
    /\ []GateSettlesAtCall
    /\ [][SettlesOnceStep]_vars
    /\ \A op \in LiveOps : InFlightOf(op) ~> SettledOf(op)

\* The promise of updateNotifications is fulfilled while an authorize called
\* before it is still in flight.
C27_Witness ==
    /\ SettledOf("updateNotifications")
    /\ last.promise = Settled("fulfilled", Null)
    /\ InFlightOf("authorize")
    /\ history.constructorToken = Str("t1")

====
